---- MODULE Spec2Model ----
(***************************************************************************)
(* A model of qc2's ASE-DIRAC calculator (src/qc2/ase/dirac.py):           *)
(*   - DIRAC.get_integrals: the FCIDUMP parser that builds the sparse      *)
(*     integral store (e_core, spinor, one_body_int, two_body_int);        *)
(*   - DIRAC.save: the expansion of that store into the dense one-body     *)
(*     matrices and the four spin blocks of the two-body tensor.           *)
(*                                                                         *)
(* Numbers.  A floating point value is an integer count of 1e-9, so        *)
(* EQ_TOLERANCE = 1e-8 is 10 and 0.675 is 675000000.  A value of the       *)
(* sparse store is a pair <<re, im>>; complex_int tells whether the store  *)
(* holds Python complex objects (im may then be non-zero) or Python floats *)
(* (im = 0).  A cell of a dense array is an integer: the arrays are        *)
(* allocated with dtype=np.float64.                                        *)
(*                                                                         *)
(* Three specifications share the variables:                               *)
(*   SpecParse  get_integrals from the opening of FCIDUMP, on a bounded    *)
(*              family of FCIDUMP files;                                   *)
(*   Spec       save() from the point where the metadata is assembled and  *)
(*              the dense arrays are about to be built, on a bounded       *)
(*              family of sparse stores and orbital counts;                *)
(*   SpecSave   save() from its first line to its last: the export         *)
(*              command, the parse, the output container, the metadata,    *)
(*              the expansion and the datasets.                            *)
(***************************************************************************)
EXTENDS Integers, Sequences, FiniteSets, TLC

VARIABLES
    pc,                       \* position in get_integrals / save
    err,                      \* the exception that ended the call, or "none"
    file,                     \* the lines of FCIDUMP
    start_reading,            \* lines consumed by the header loop
    listed_values,            \* token rows of the lines after the header
    row,                      \* index (0-based) of the next row to parse
    complex_int,              \* the layout chosen from the first data row
    e_core, spinor, one_body_int, two_body_int,   \* the sparse store
    nmo,                      \* number of spatial orbitals used by save()
    one_body_coefficients_a, one_body_coefficients_b,
    two_body_coefficients_aa, two_body_coefficients_bb,
    two_body_coefficients_ab, two_body_coefficients_ba,
    written,                  \* the integral datasets put in the HDF5 file
    export,                   \* what running the export command will do
    errorcode,                \* proc.wait(), 0 until the command was waited for
    dirac_h5,                 \* the DIRAC result file prefix_prefix.h5
    parameters,               \* self.parameters, as far as save() reads it
    output_file,              \* the file at hdf5_filename
    attrs                     \* the attributes put in the HDF5 file

parseVars == <<file, start_reading, listed_values, row, complex_int>>
storeVars == <<e_core, spinor, one_body_int, two_body_int>>
denseVars == <<nmo, one_body_coefficients_a, one_body_coefficients_b,
               two_body_coefficients_aa, two_body_coefficients_bb,
               two_body_coefficients_ab, two_body_coefficients_ba, written>>
runVars == <<export, errorcode, dirac_h5, parameters>>
outVars == <<output_file, attrs>>
vars == <<pc, err, parseVars, storeVars, denseVars, runVars, outVars>>

(***************************************************************************)
(* Bounds of the model.                                                    *)
(***************************************************************************)
MaxRows == 3        \* data rows after the header of a modelled file
MaxSpatial == 2     \* largest orbital count nmo handed to save()
MaxKeys == 2        \* two-body keys of a generated sparse store

(***************************************************************************)
(* Helpers.                                                                *)
(***************************************************************************)
EmptyMap == [k \in {} |-> <<0, 0>>]

Abs(x) == IF x < 0 THEN -x ELSE x

\* A store that keeps the first value written under a key.
PutKeepFirst(m, k, v) ==
    [x \in (DOMAIN m) \cup {k} |-> IF x \in DOMAIN m THEN m[x] ELSE v]

\* The map m with key k bound to v: Python's  d[k] = v.
Put(m, k, v) == [x \in (DOMAIN m) \cup {k} |-> IF x = k THEN v ELSE m[x]]

(***************************************************************************)
(* Tokens.  A token of a data row is what str.split() left: k = "i" an     *)
(* integer literal with value v, k = "f" a floating point literal worth    *)
(* v * 1e-9, k = "x" any other text.                                       *)
(***************************************************************************)
I(n) == [k |-> "i", v |-> n]
F(n) == [k |-> "f", v |-> n]
X == [k |-> "x", v |-> 0]

\* int(token): only an integer literal converts; "0.5" and "x" raise ValueError.
IntOk(tok) == tok.k = "i"
IntOf(tok) == tok.v

\* float(token): integer and floating literals convert; other text raises.
FloatOk(tok) == tok.k \in {"i", "f"}
FloatOf(tok) == IF tok.k = "i" THEN tok.v * 1000000000 ELSE tok.v

(***************************************************************************)
(* FCIDUMP files.  A line is [end, toks]: end tells whether the text holds *)
(* the substring "&END", toks is line.split().                             *)
(***************************************************************************)
Line(e, t) == [end |-> e, toks |-> t]

EndLine == Line(TRUE, <<X>>)                      \* " &END"
TitleLine == Line(FALSE, <<X, X>>)                \* " &FCI NORB=4,"

\* value idx1 idx2 idx3 idx4
Row5(v, a, b, c, d) == Line(FALSE, <<F(v), I(a), I(b), I(c), I(d)>>)
\* value_re value_im idx1 idx2 idx3 idx4
Row6(re, im, a, b, c, d) ==
    Line(FALSE, <<F(re), F(im), I(a), I(b), I(c), I(d)>>)

\* A header line that reads like a data row: " 3e-8 3 3 0 0"
HeaderRow == Row5(30, 3, 3, 0, 0)
\* A line that reads like a data row and holds "&END": " 5e-9 3 4 0 0 &END"
EndDataLine == Line(TRUE, <<F(5), I(3), I(4), I(0), I(0), X>>)

RowPool ==
    { Row5(5, 0, 0, 0, 0), Row5(30, 0, 0, 0, 0),        \* core energy, twice
      Row5(5, 1, 0, 0, 0),                              \* orbital value
      Row5(5, 1, 2, 0, 0), Row5(30, 1, 2, 0, 0),        \* one-body, same key
      Row5(5, 1, 2, 2, 1),                              \* two-body
      Row5(5, 0, 2, 0, 0),                              \* (0,k,0,0)
      Row5(5, 1, 0, 2, 0),                              \* (i,0,k,0)
      Row6(5, 30, 1, 2, 2, 1),                          \* complex two-body
      Row6(30, 5, 0, 0, 0, 0),                          \* complex core energy
      Line(FALSE, <<>>),                                \* blank line
      Line(FALSE, <<F(5), I(1), I(2), I(0), I(0), I(1)>>),        \* 5 + 1 extra
      Line(FALSE, <<F(5), I(1), I(2), I(0), I(0), I(1), I(1)>>),  \* 5 + 2 extra
      Line(FALSE, <<F(5), I(1), X, I(0), I(0)>>),       \* non-numeric index
      Line(FALSE, <<F(5), I(1), I(2), I(0)>>),          \* one token short
      EndDataLine }                                     \* "&END" once more

Headers ==
    { <<EndLine>>, <<TitleLine, EndLine>>, <<>>, <<HeaderRow, EndDataLine>> }

DataSeqs == UNION { [1..n -> RowPool] : n \in 0..MaxRows }

Files == { h \o d : h \in Headers, d \in DataSeqs }

(***************************************************************************)
(* get_integrals, lines 541-552: the header loop, the tokenisation of the  *)
(* remaining lines and the choice of the layout.                           *)
(***************************************************************************)
num_lines == Len(file)

\* Lines the loop "for line in f: start_reading += 1; if '&END' in line: break"
\* consumes: up to and including the first line holding "&END", else all.
\* The header taken to end at the last line holding "&END".
HeaderLenLast(f) ==
    IF \E i \in 1..Len(f) : f[i].end
    THEN CHOOSE i \in 1..Len(f) : f[i].end /\ \A j \in (i+1)..Len(f) : ~f[j].end
    ELSE Len(f)

HeaderLen(f) ==
    IF \E i \in 1..Len(f) : f[i].end
    THEN CHOOSE i \in 1..Len(f) : f[i].end /\ \A j \in 1..(i-1) : ~f[j].end
    ELSE Len(f)

\* [line.split() for line in f.readlines()] on what the loop left unread.
Tokenize(f, n) == [i \in 1..(Len(f) - n) |-> f[n + i].toks]

\* complex_int = (len(listed_values[0]) == 6)
IsComplexLayout(lv) == Len(lv[1]) = 6

(***************************************************************************)
(* One data row, lines 555-570 (real) and 573-594 (complex).               *)
(***************************************************************************)
\* Position (0-based, as in the code) of the first index token.
IdxBase(cplx) == IF cplx THEN 2 ELSE 1

\* The four int(listed_values[row][..]) calls, in order: the first j whose
\* token is missing (IndexError) or is no integer literal (ValueError).
IdxFails(toks, cplx, j) ==
    \/ Len(toks) < IdxBase(cplx) + j + 1
    \/ ~IntOk(toks[IdxBase(cplx) + j + 1])

IdxError(toks, cplx) ==
    IF \E j \in 0..3 : IdxFails(toks, cplx, j)
    THEN LET j == CHOOSE i \in 0..3 : IdxFails(toks, cplx, i)
                      /\ \A h \in 0..(i-1) : ~IdxFails(toks, cplx, h)
         IN  IF Len(toks) < IdxBase(cplx) + j + 1
             THEN "IndexError" ELSE "ValueError"
    ELSE "none"

\* float(listed_values[row][0]) and, complex, float(listed_values[row][1]).
ValueError(toks, cplx) ==
    IF ~FloatOk(toks[1]) \/ (cplx /\ ~FloatOk(toks[2]))
    THEN "ValueError" ELSE "none"

RowError(toks, cplx) ==
    IF IdxError(toks, cplx) # "none" THEN IdxError(toks, cplx)
    ELSE ValueError(toks, cplx)

RowIdx(toks, cplx) ==
    [j \in 1..4 |-> IntOf(toks[IdxBase(cplx) + j])]

\* float(row[0]), or complex(float(row[0]), float(row[1])).
RowValue(toks, cplx) ==
    IF cplx THEN <<FloatOf(toks[1]), FloatOf(toks[2])>>
    ELSE <<FloatOf(toks[1]), 0>>

\* The nested if with the tests on a_1 and a_2 exchanged.
RowTargetSwapped(a) ==
    IF a[4] = 0 /\ a[3] = 0
    THEN IF a[1] = 0
         THEN IF a[2] = 0 THEN "e_core" ELSE "spinor"
         ELSE "one_body_int"
    ELSE "two_body_int"

\* The branch of the nested if that the indices select.
RowTarget(a) ==
    IF a[4] = 0 /\ a[3] = 0
    THEN IF a[2] = 0
         THEN IF a[1] = 0 THEN "e_core" ELSE "spinor"
         ELSE "one_body_int"
    ELSE "two_body_int"

(***************************************************************************)
(* get_integrals as a state machine.  pc = "open": the export command has  *)
(* exited with status 0 and FCIDUMP is about to be read.                   *)
(***************************************************************************)
NoDense ==
    /\ nmo = 0
    /\ one_body_coefficients_a = << >>
    /\ one_body_coefficients_b = << >>
    /\ two_body_coefficients_aa = << >>
    /\ two_body_coefficients_bb = << >>
    /\ two_body_coefficients_ab = << >>
    /\ two_body_coefficients_ba = << >>
    /\ written = {}

\* Lines 537-540: e_core = 0; spinor = {}; one_body_int = {}; two_body_int = {}
InitParse ==
    /\ pc = "open"
    /\ err = "none"
    /\ file \in Files
    /\ start_reading = 0
    /\ listed_values = << >>
    /\ row = 0
    /\ complex_int = FALSE
    /\ e_core = <<0, 0>>
    /\ spinor = EmptyMap
    /\ one_body_int = EmptyMap
    /\ two_body_int = EmptyMap
    /\ NoDense
    /\ export = [popen |-> "started", status |-> 0]
    /\ errorcode = 0
    /\ dirac_h5 = [readable |-> FALSE, data |-> << >>]
    /\ parameters = [charge |-> 0, hamiltonian |-> {".levy-leblond"}]
    /\ output_file = "absent"
    /\ attrs = << >>

\* Lines 541-552.  listed_values[0] raises IndexError when no line follows
\* the header.
ReadHeader ==
    /\ pc = "open"
    /\ start_reading' = HeaderLen(file)
    /\ listed_values' = Tokenize(file, HeaderLen(file))
    /\ IF Len(Tokenize(file, HeaderLen(file))) = 0
       THEN /\ pc' = "error"
            /\ err' = "IndexError"
            /\ UNCHANGED complex_int
       ELSE /\ pc' = "rows"
            /\ err' = "none"
            /\ complex_int' = IsComplexLayout(Tokenize(file, HeaderLen(file)))
    /\ UNCHANGED <<file, row, storeVars, denseVars, runVars, outVars>>

\* One pass of "for row in range(num_lines-start_reading)", lines 554-570
\* or 572-594 according to complex_int.
ParseRow ==
    /\ pc = "rows"
    /\ row < num_lines - start_reading
    /\ LET toks == listed_values[row + 1]
           e == RowError(toks, complex_int)
           a == RowIdx(toks, complex_int)
           v == RowValue(toks, complex_int)
           t == RowTarget(a)
       IN  IF e # "none"
           THEN /\ pc' = "error"
                /\ err' = e
                /\ UNCHANGED <<row, storeVars>>
           ELSE /\ e_core' = IF t = "e_core" THEN v ELSE e_core
                /\ spinor' = IF t = "spinor"
                             THEN Put(spinor, a[1], v) ELSE spinor
                /\ one_body_int' = IF t = "one_body_int"
                                   THEN Put(one_body_int, <<a[1], a[2]>>, v)
                                   ELSE one_body_int
                /\ two_body_int' = IF t = "two_body_int"
                                   THEN Put(two_body_int,
                                            <<a[1], a[2], a[3], a[4]>>, v)
                                   ELSE two_body_int
                /\ row' = row + 1
                /\ UNCHANGED <<pc, err>>
    /\ UNCHANGED <<file, start_reading, listed_values, complex_int, denseVars,
                   runVars, outVars>>

\* Line 596: return e_core, spinor, one_body_int, two_body_int
Return ==
    /\ pc = "rows"
    /\ row = num_lines - start_reading
    /\ pc' = "returned"
    /\ UNCHANGED <<err, parseVars, storeVars, denseVars, runVars, outVars>>

NextParse == ReadHeader \/ ParseRow \/ Return

SpecParse == InitParse /\ [][NextParse]_vars

(***************************************************************************)
(* get_integrals, lines 521-535: the export command.                       *)
(*                                                                         *)
(* subprocess.Popen(command, shell=True, cwd=self.directory) starts a      *)
(* shell in the working directory and raises OSError when that cannot be   *)
(* done.  Once started, the shell runs the command and proc.wait() is its  *)
(* exit status: that of the export program, 127 when the shell does not    *)
(* find the executable, -N when signal N ended it.                         *)
(***************************************************************************)
Exports ==
    { [popen |-> "OSError", status |-> 0] }
    \cup { [popen |-> "started", status |-> st] : st \in {0, 1, 127, -9} }

ExportOk == [popen |-> "started", status |-> 0]

\* Lines 522-526.
Popen ==
    /\ pc = "start"
    /\ IF export.popen = "OSError"
       THEN /\ pc' = "error"
            /\ err' = "EnvironmentError"
       ELSE /\ pc' = "wait"
            /\ err' = "none"
    /\ UNCHANGED <<parseVars, storeVars, denseVars, runVars, outVars>>

\* proc.wait() with the test of the status left out.
WaitUnchecked ==
    /\ pc = "wait"
    /\ errorcode' = export.status
    /\ pc' = "open"
    /\ UNCHANGED <<err, parseVars, storeVars, denseVars, export, dirac_h5,
                   parameters, outVars>>

\* Lines 528-535.
Wait ==
    /\ pc = "wait"
    /\ errorcode' = export.status
    /\ IF export.status # 0
       THEN /\ pc' = "error"
            /\ err' = "CalculationFailed"
       ELSE /\ pc' = "open"
            /\ err' = "none"
    /\ UNCHANGED <<parseVars, storeVars, denseVars, export, dirac_h5,
                   parameters, outVars>>

(***************************************************************************)
(* The DIRAC result file and _get_from_dirac_hdf5_file, lines 598-606.     *)
(* dirac_h5 is [readable, data]: whether h5py.File(out_hdf5_file, "r")     *)
(* opens it, and the arrays it holds by property name.                     *)
(***************************************************************************)
PropEnergy == "/result/wavefunctions/scf/energy"
PropStatus == "/result/execution/status"
PropSymbols == "/input/molecule/symbols"
PropGeometry == "/input/molecule/geometry"
PropNucCharge == "/input/molecule/nuc_charge"
PropNAo == "/input/aobasis/1/n_ao"
PropNMo == "/result/wavefunctions/scf/mobasis/n_mo"
PropNAtoms == "/input/molecule/n_atoms"

\* What the helper returns: the array, or None.
None == [some |-> FALSE]
Some(v) == [some |-> TRUE, v |-> v]

\* try: data = f[property_name][...]  except (KeyError, IOError): data = None
get_from_dirac_hdf5_file(h5, property_name) ==
    IF h5.readable /\ property_name \in DOMAIN h5.data
    THEN Some(h5.data[property_name])
    ELSE None

\* sum(array)
RECURSIVE Sum(_)
Sum(a) == IF a = << >> THEN 0 ELSE a[1] + Sum(Tail(a))

(***************************************************************************)
(* save(), lines 195-296: the output container and its metadata.  attrs    *)
(* maps "group/name" to the value assigned to that attribute.              *)
(***************************************************************************)
NoAttrs == [k \in {} |-> 0]

\* Line 195: h5py.File(hdf5_filename, "w") creates the file, or truncates
\* the one that exists.
OpenOutput ==
    /\ pc = "returned"
    /\ pc' = "opened"
    /\ output_file' = "open"
    /\ attrs' = NoAttrs
    /\ UNCHANGED <<err, parseVars, storeVars, denseVars, runVars>>

\* Lines 202-206: energy = helper(...)[0] and status = helper(...)[0];
\* None[0] raises TypeError.
GeneralError(h5) ==
    IF \/ ~get_from_dirac_hdf5_file(h5, PropEnergy).some
       \/ ~get_from_dirac_hdf5_file(h5, PropStatus).some
    THEN "TypeError" ELSE "none"

\* Lines 199-216.
GeneralAttrs(h5) ==
    LET energy == get_from_dirac_hdf5_file(h5, PropEnergy).v[1]
        status == get_from_dirac_hdf5_file(h5, PropStatus).v[1]
    IN  ("driver" :> "energy")
        @@ ("schema_name" :> "qcschema_molecule")
        @@ ("schema_version" :> "1.dev")
        @@ ("return_result" :> energy)
        @@ ("success" :> (status = 2))

GeneralAttributes ==
    /\ pc = "opened"
    /\ IF GeneralError(dirac_h5) # "none"
       THEN /\ pc' = "error"
            /\ err' = GeneralError(dirac_h5)
            /\ UNCHANGED attrs
       ELSE /\ pc' = "general"
            /\ err' = "none"
            /\ attrs' = GeneralAttrs(dirac_h5) @@ attrs
    /\ UNCHANGED <<parseVars, storeVars, denseVars, runVars, output_file>>

\* geometry / Bohr, coordinates in units of 1e-3 (Bohr = 0.529 Angstrom).
InBohr(g) == [i \in DOMAIN g |-> (g[i] * 1000) \div 529]

\* Lines 219-239: where the molecule group fails.  None / Bohr raises
\* TypeError (line 222) before the group exists; an attribute cannot be
\* assigned None: molecule.attrs['symbols'] (line 233) and
\* molecule.attrs['atomic_numbers'] (line 237) raise TypeError.
MoleculeFailure(h5) ==
    IF ~get_from_dirac_hdf5_file(h5, PropGeometry).some THEN "geometry"
    ELSE IF ~get_from_dirac_hdf5_file(h5, PropSymbols).some THEN "symbols"
    ELSE IF ~get_from_dirac_hdf5_file(h5, PropNucCharge).some
         THEN "atomic_numbers"
    ELSE "none"

\* Lines 233-236.
MoleculeHead(h5, params) ==
    ("molecule/symbols" :> get_from_dirac_hdf5_file(h5, PropSymbols).v)
    @@ ("molecule/geometry"
           :> InBohr(get_from_dirac_hdf5_file(h5, PropGeometry).v))
    @@ ("molecule/molecular_charge" :> params.charge)
    @@ ("molecule/molecular_multiplicity" :> "")

\* Lines 237-239.
MoleculeTail(h5) ==
    ("molecule/atomic_numbers" :> get_from_dirac_hdf5_file(h5, PropNucCharge).v)
    @@ ("molecule/schema_name" :> "qcschema_molecule")
    @@ ("molecule/schema_version" :> "1.dev")

MoleculeGroup ==
    /\ pc = "general"
    /\ LET f == MoleculeFailure(dirac_h5)
       IN  IF f # "none"
           THEN /\ pc' = "error"
                /\ err' = "TypeError"
                /\ attrs' = IF f = "atomic_numbers"
                            THEN MoleculeHead(dirac_h5, parameters) @@ attrs
                            ELSE attrs
           ELSE /\ pc' = "molecule"
                /\ err' = "none"
                /\ attrs' = MoleculeHead(dirac_h5, parameters)
                            @@ MoleculeTail(dirac_h5) @@ attrs
    /\ UNCHANGED <<parseVars, storeVars, denseVars, runVars, output_file>>

\* Lines 242-263: helper(...)[0] (n_ao, n_atoms) and sum(helper(...))
\* (n_mo, nuc_charge) raise TypeError on None.
PropertiesError(h5) ==
    IF \E name \in {PropNAo, PropNMo, PropNucCharge, PropNAtoms} :
           ~get_from_dirac_hdf5_file(h5, name).some
    THEN "TypeError" ELSE "none"

\* Lines 249-250: neither '.nonrel' nor '.levy-leblond' is a key of
\* self.parameters['hamiltonian'].
Relativistic(params) ==
    ".nonrel" \notin params.hamiltonian /\ ".levy-leblond" \notin params.hamiltonian

\* Lines 245-251: nmo = sum(nmo), halved (nmo // 2) when relativistic.
Nmo(h5, params) ==
    LET total == Sum(get_from_dirac_hdf5_file(h5, PropNMo).v)
    IN  IF Relativistic(params) THEN total \div 2 ELSE total

\* Line 259: nelec = int(sum(nuc_charge)) - molecular_charge
Nelec(h5, params) ==
    Sum(get_from_dirac_hdf5_file(h5, PropNucCharge).v) - params.charge

\* nelec / 2 rounded towards zero.
CalcinfoNbetaTowardsZero(nelec) ==
    IF nelec < 0 THEN -((-nelec) \div 2) ELSE nelec \div 2

\* Line 260: calcinfo_nbeta = nelec // 2
CalcinfoNbeta(nelec) == nelec \div 2

\* Line 261: calcinfo_nalpha = nelec - calcinfo_nbeta
CalcinfoNalpha(nelec) == nelec - CalcinfoNbeta(nelec)

\* Lines 267-274.
PropertiesAttrs(h5, params, ecore, energy) ==
    ("properties/calcinfo_nbasis" :> get_from_dirac_hdf5_file(h5, PropNAo).v[1])
    @@ ("properties/calcinfo_nmo" :> Nmo(h5, params))
    @@ ("properties/calcinfo_nalpha" :> CalcinfoNalpha(Nelec(h5, params)))
    @@ ("properties/calcinfo_nbeta" :> CalcinfoNbeta(Nelec(h5, params)))
    @@ ("properties/calcinfo_natom"
           :> get_from_dirac_hdf5_file(h5, PropNAtoms).v[1])
    @@ ("properties/nuclear_repulsion_energy" :> ecore)
    @@ ("properties/return_energy" :> energy)

PropertiesGroup ==
    /\ pc = "molecule"
    /\ IF PropertiesError(dirac_h5) # "none"
       THEN /\ pc' = "error"
            /\ err' = PropertiesError(dirac_h5)
            /\ UNCHANGED <<nmo, attrs>>
       ELSE /\ pc' = "properties"
            /\ err' = "none"
            /\ nmo' = Nmo(dirac_h5, parameters)
            /\ attrs' = PropertiesAttrs(dirac_h5, parameters, e_core,
                                        attrs["return_result"]) @@ attrs
    /\ UNCHANGED <<parseVars, storeVars, one_body_coefficients_a,
                   one_body_coefficients_b, two_body_coefficients_aa,
                   two_body_coefficients_bb, two_body_coefficients_ab,
                   two_body_coefficients_ba, written, runVars, output_file>>

\* Lines 278-293: the model and provenance groups, for the default
\* parameters (basis '.default': 'sto-3g', wave function '.scf').
ModelAttrs ==
    ("model/basis" :> "sto-3g")
    @@ ("model/method" :> "scf")
    @@ ("provenance/creator" :> "dirac")
    @@ ("provenance/version" :> "1.dev")
    @@ ("provenance/routine" :> "ASE-DIRAC.save()")

\* Lines 276-296.
ModelGroups ==
    /\ pc = "properties"
    /\ pc' = "assembled"
    /\ attrs' = ModelAttrs @@ attrs
    /\ UNCHANGED <<err, parseVars, storeVars, denseVars, runVars, output_file>>

\* The DIRAC result files save() is run on: a file of a run on atoms of
\* nuclear charges nuc_charge with n_mo orbitals per symmetry and final
\* status st, coordinates in units of 1e-3 Angstrom.
ResultData(n_mo, nuc_charge, st) ==
    (PropEnergy :> <<-1137276>>)
    @@ (PropStatus :> <<st>>)
    @@ (PropSymbols :> [i \in DOMAIN nuc_charge |->
                          IF nuc_charge[i] = 1 THEN "H" ELSE "Li"])
    @@ (PropGeometry :> [i \in 1..(3 * Len(nuc_charge)) |->
                           IF i = 6 THEN 737 ELSE 0])
    @@ (PropNucCharge :> nuc_charge)
    @@ (PropNAo :> <<2>>)
    @@ (PropNMo :> n_mo)
    @@ (PropNAtoms :> <<Len(nuc_charge)>>)

ResultFile(n_mo, nuc_charge, st) ==
    [readable |-> TRUE, data |-> ResultData(n_mo, nuc_charge, st)]

\* The data d without property name.
Lacking(d, name) == [x \in (DOMAIN d) \ {name} |-> d[x]]

PropertyNames ==
    { PropEnergy, PropStatus, PropSymbols, PropGeometry, PropNucCharge,
      PropNAo, PropNMo, PropNAtoms }

\* self.parameters: the '.charge' of the molecule and the keys of the
\* 'hamiltonian' section; the default is charge '0' and '.levy-leblond'.
DefaultParameters == [charge |-> 0, hamiltonian |-> {".levy-leblond"}]

ParameterSets ==
    { [charge |-> c, hamiltonian |-> h] :
        c \in {-1, 0, 3}, h \in { {".levy-leblond"}, {".x2c"} } }

\* The attributes of a container whose metadata is assembled.
AssembledAttrs(h5, params, ecore) ==
    ModelAttrs
    @@ PropertiesAttrs(h5, params, ecore, GeneralAttrs(h5)["return_result"])
    @@ MoleculeHead(h5, params) @@ MoleculeTail(h5)
    @@ GeneralAttrs(h5)

(***************************************************************************)
(* save(): the expansion of the sparse store into dense arrays.            *)
(*                                                                         *)
(* np.zeros((nmo, nmo), dtype=np.float64) and its four-index counterpart.  *)
(***************************************************************************)
Orbitals(n) == 0..(n - 1)
Pairs(n) == Orbitals(n) \X Orbitals(n)
Quads(n) == Orbitals(n) \X Orbitals(n) \X Orbitals(n) \X Orbitals(n)

ZeroMatrix(n) == [c \in Pairs(n) |-> 0]
ZeroTensor(n) == [c \in Quads(n) |-> 0]

\* alpha_p = 2 * p + 1 and beta_p = 2 * p + 2
Alpha(p) == 2 * p + 1
Beta(p) == 2 * p + 2

\* np.conj of a store value.
Conj(v) == <<v[1], -v[2]>>

\* What a float64 cell holds after "array[...] = v" succeeded: v is a Python
\* float, or the np.float64 that np.conj made of one.
Float64(v) == v[1]

\* array[...] = v raises TypeError when v is a Python complex.
AssignFails(cplx) == cplx

(***************************************************************************)
(* Lines 307-322: the one-body loop, p and q ascending.                    *)
(***************************************************************************)
\* The i-th (0-based) pair of "for p in range(nmo): for q in range(nmo)".
PairAt(i, n) == <<i \div n, i % n>>

AlphaKey(c) == <<Alpha(c[1]), Alpha(c[2])>>
BetaKey(c) == <<Beta(c[1]), Beta(c[2])>>

\* How one pass of the loop body ends: the alpha lookup, the alpha
\* assignment, the beta lookup, the beta assignment, in that order.
OneBodyPassError(c, one, cplx) ==
    IF AlphaKey(c) \notin DOMAIN one THEN "KeyError"
    ELSE IF AssignFails(cplx) THEN "TypeError"
    ELSE IF BetaKey(c) \notin DOMAIN one THEN "KeyError"
    ELSE "none"

\* The exception that ends the loop: that of its first failing pass.
OneBodyError(n, one, cplx) ==
    LET bad == { i \in 0..(n * n - 1) :
                    OneBodyPassError(PairAt(i, n), one, cplx) # "none" }
    IN  IF bad = {} THEN "none"
        ELSE OneBodyPassError(
                 PairAt(CHOOSE i \in bad : \A j \in bad : i <= j, n),
                 one, cplx)

\* The two matrices when every pass succeeds.
OneBodyA(n, one) == [c \in Pairs(n) |-> Float64(one[AlphaKey(c)])]
OneBodyB(n, one) == [c \in Pairs(n) |-> Float64(one[BetaKey(c)])]

(***************************************************************************)
(* Lines 324-328 and 426-434: array[np.abs(array) < EQ_TOLERANCE] = 0.     *)
(***************************************************************************)
EQ_TOLERANCE == 10

\* The mask taken with <= instead of <.
TruncateInclusive(array) ==
    [c \in DOMAIN array |->
        IF Abs(array[c]) <= EQ_TOLERANCE THEN 0 ELSE array[c]]

Truncate(array) ==
    [c \in DOMAIN array |->
        IF Abs(array[c]) < EQ_TOLERANCE THEN 0 ELSE array[c]]

(***************************************************************************)
(* Lines 343-424: the two-body loop over p, q, r, s ascending.             *)
(***************************************************************************)
\* The i-th (0-based) quadruple of the four nested loops.
QuadAt(i, n) ==
    <<i \div (n * n * n), (i \div (n * n)) % n, (i \div n) % n, i % n>>

\* The four doubled keys of a spatial quadruple c = (p, q, r, s).
KeyAA(c) == <<Alpha(c[1]), Alpha(c[2]), Alpha(c[3]), Alpha(c[4])>>
KeyBB(c) == <<Beta(c[1]), Beta(c[2]), Beta(c[3]), Beta(c[4])>>
KeyAB(c) == <<Alpha(c[1]), Beta(c[2]), Beta(c[3]), Alpha(c[4])>>
KeyBA(c) == <<Beta(c[1]), Alpha(c[2]), Alpha(c[3]), Beta(c[4])>>

\* The four assignments with the second one at (q,p,r,s).
FillMisplaced(block, c, term) ==
    [block EXCEPT ![<<c[1], c[2], c[3], c[4]>>] = Float64(term),
                  ![<<c[2], c[1], c[3], c[4]>>] = Float64(term),
                  ![<<c[3], c[4], c[1], c[2]>>] = Float64(Conj(term)),
                  ![<<c[4], c[3], c[2], c[1]>>] = Float64(Conj(term))]

\* The four assignments "exploiting perm symm of 2-body integrals":
\*   block[p,q,r,s] = term            block[q,p,s,r] = term
\*   block[r,s,p,q] = np.conj(term)   block[s,r,q,p] = np.conj(term)
Fill(block, c, term) ==
    [block EXCEPT ![<<c[1], c[2], c[3], c[4]>>] = Float64(term),
                  ![<<c[2], c[1], c[4], c[3]>>] = Float64(term),
                  ![<<c[3], c[4], c[1], c[2]>>] = Float64(Conj(term)),
                  ![<<c[4], c[3], c[2], c[1]>>] = Float64(Conj(term))]

\* "if key in two_body_integrals:" followed by the four assignments.
FillIf(block, c, key, two) ==
    IF key \in DOMAIN two THEN Fill(block, c, two[key]) ELSE block

\* The body of the loop for quadruple c, block by block, the assignments to
\* a block in program order: the alpha-alpha term goes to all four blocks
\* (lines 360-387), then the beta-beta term to bb (390-400), the alpha-beta
\* term to ab (402-412) and the beta-alpha term to ba (414-424).
\* The alpha-alpha block also taking the beta-beta term.
PassAAWithBB(aa, c, two) ==
    FillIf(FillIf(aa, c, KeyAA(c), two), c, KeyBB(c), two)

PassAA(aa, c, two) == FillIf(aa, c, KeyAA(c), two)
\* The beta-beta block without the restricted fill of lines 384-387.
PassBBUnfilled(bb, c, two) == FillIf(bb, c, KeyBB(c), two)

PassBB(bb, c, two) ==
    FillIf(FillIf(bb, c, KeyAA(c), two), c, KeyBB(c), two)
PassAB(ab, c, two) ==
    FillIf(FillIf(ab, c, KeyAA(c), two), c, KeyAB(c), two)
PassBA(ba, c, two) ==
    FillIf(FillIf(ba, c, KeyAA(c), two), c, KeyBA(c), two)

\* Whether the pass for c assigns anything (a doubled key of c is stored).
QuadWrites(c, two) ==
    \/ KeyAA(c) \in DOMAIN two
    \/ KeyBB(c) \in DOMAIN two
    \/ KeyAB(c) \in DOMAIN two
    \/ KeyBA(c) \in DOMAIN two

\* The pass for c on the block named ch.
Pass(ch, block, c, two) ==
    CASE ch = "aa" -> PassAA(block, c, two)
      [] ch = "bb" -> PassBB(block, c, two)
      [] ch = "ab" -> PassAB(block, c, two)
      [] ch = "ba" -> PassBA(block, c, two)

\* Block ch after the passes for the first k quadruples, from all zeros.
BlockAfter(ch, k, n, two) ==
    LET after[j \in 0..k] ==
            IF j = 0 THEN ZeroTensor(n)
            ELSE Pass(ch, after[j - 1], QuadAt(j - 1, n), two)
    IN  after[k]

\* The four blocks when the loop has run over all nmo^4 quadruples.
TwoBody(n, two) ==
    [ch \in {"aa", "bb", "ab", "ba"} |-> BlockAfter(ch, n * n * n * n, n, two)]

\* The first assignment of the loop raises TypeError on a complex store.
TwoBodyError(n, two, cplx) ==
    IF AssignFails(cplx) /\ \E c \in Quads(n) : QuadWrites(c, two)
    THEN "TypeError" ELSE "none"

(***************************************************************************)
(* The sparse stores and orbital counts save() is run on.                  *)
(*                                                                         *)
(* nmo comes from the DIRAC result file, the store from FCIDUMP: neither   *)
(* bounds the other.  Two keys interact only through the cells both write, *)
(* i.e. when their spatial quadruples lie in one symmetry orbit, so a      *)
(* generated two-body map holds up to MaxKeys doubled keys of one orbit.   *)
(***************************************************************************)
SpatialCounts == 1..MaxSpatial

\* Values on both sides of EQ_TOLERANCE: -5e-9 and 1e-8.
ValPool == { <<-5, 0>>, <<10, 0>> }

\* The quadruples (q,p,s,r), (r,s,p,q), (s,r,q,p) and c itself.
Orbit(c) ==
    { <<c[1], c[2], c[3], c[4]>>, <<c[2], c[1], c[4], c[3]>>,
      <<c[3], c[4], c[1], c[2]>>, <<c[4], c[3], c[2], c[1]>> }

OrbitKeys(c) ==
    UNION { {KeyAA(d), KeyBB(d), KeyAB(d), KeyBA(d)} : d \in Orbit(c) }

\* The subsets of S with at most k elements.
RECURSIVE SubsetsUpTo(_, _)
SubsetsUpTo(S, k) ==
    IF k = 0 THEN { {} }
    ELSE SubsetsUpTo(S, k - 1)
         \cup { x \cup {e} : x \in SubsetsUpTo(S, k - 1), e \in S }

MapsOver(keys) == UNION { [ks -> ValPool] : ks \in SubsetsUpTo(keys, MaxKeys) }

\* The orbits of the quadruples of two orbitals: seven, of 1, 2 or 4
\* quadruples.
Orbits == { Orbit(c) : c \in Quads(2) }

TwoBodyPool ==
    UNION { MapsOver(UNION { OrbitKeys(c) : c \in o }) : o \in Orbits }

\* A one-body map with every doubled key of m spatial orbitals, each key
\* with a value of its own: (1,1) -> -1e-9, (2,2) -> 1e-8, (1,3) -> 1e-9, ...
OneVal(k) == <<10 * k[1] + k[2] - 12, 0>>
FullOneBody(m) ==
    [k \in { AlphaKey(c) : c \in Pairs(m) } \cup { BetaKey(c) : c \in Pairs(m) }
        |-> OneVal(k)]
Without(m, ks) == [k \in (DOMAIN m) \ ks |-> m[k]]

\* Complete for m orbitals, or with one key missing.
OneBodyPool ==
    UNION { { FullOneBody(m) }
            \cup { Without(FullOneBody(m), {k}) : k \in DOMAIN FullOneBody(m) } :
            m \in 1..(MaxSpatial + 1) }

\* The same map as Python complex objects.
AsComplex(m) == [k \in DOMAIN m |-> <<m[k][1], 7>>]

Input(n, c, e, one, two) ==
    [nmo |-> n, complex_int |-> c, e_core |-> e,
     one_body_int |-> one, two_body_int |-> two]

\* Real stores that differ in their two-body map.
TwoBodyInputs ==
    { Input(n, FALSE, <<0, 0>>, FullOneBody(n), two) :
        n \in SpatialCounts, two \in TwoBodyPool }

\* Real stores that differ in their one-body map.
OneBodyInputs ==
    { Input(n, FALSE, <<0, 0>>, one, EmptyMap) :
        n \in SpatialCounts, one \in OneBodyPool }

\* The record of the end-to-end scenario: core_energy = 0.7, one-body
\* (1,1) = -1.25 and (2,2) = -0.47, two-body (1,1,1,1) = 0.675.
ScenarioReal ==
    Input(2, FALSE, <<700000000, 0>>,
          (<<1, 1>> :> <<-1250000000, 0>>) @@ (<<2, 2>> :> <<-470000000, 0>>),
          <<1, 1, 1, 1>> :> <<675000000, 0>>)

\* The two-body map of the complex scenario: (1,2,2,1) = 0.1+0.2i.
ScenarioComplexTwo == <<1, 2, 2, 1>> :> <<100000000, 200000000>>

\* Complex stores: the scenario's two-body map with a full, a partial and an
\* empty one-body map.
ComplexInputs ==
    { Input(n, TRUE, <<0, 0>>, one, two) :
        n \in SpatialCounts,
        one \in { AsComplex(FullOneBody(m)) : m \in 1..MaxSpatial }
                \cup { EmptyMap },
        two \in { ScenarioComplexTwo, EmptyMap } }

Inputs == TwoBodyInputs \cup OneBodyInputs \cup ComplexInputs \cup {ScenarioReal}

(***************************************************************************)
(* The build of the dense arrays in save() as a state machine, from the    *)
(* point where the metadata of the container is assembled.                 *)
(***************************************************************************)
Init ==
    /\ pc = "assembled"
    /\ err = "none"
    /\ file = << >>
    /\ start_reading = 0
    /\ listed_values = << >>
    /\ row = 0
    /\ \E in \in Inputs :
          /\ nmo = in.nmo
          /\ complex_int = in.complex_int
          /\ e_core = in.e_core
          /\ one_body_int = in.one_body_int
          /\ two_body_int = in.two_body_int
    /\ spinor = EmptyMap
    /\ one_body_coefficients_a = << >>
    /\ one_body_coefficients_b = << >>
    /\ two_body_coefficients_aa = << >>
    /\ two_body_coefficients_bb = << >>
    /\ two_body_coefficients_ab = << >>
    /\ two_body_coefficients_ba = << >>
    /\ written = {}
    /\ export = ExportOk
    /\ errorcode = 0
    /\ dirac_h5 = ResultFile(<<nmo>>, <<1, 1>>, 2)
    /\ parameters = DefaultParameters
    /\ output_file = "open"
    /\ attrs = AssembledAttrs(dirac_h5, parameters, e_core)

twoBodyArrays == <<two_body_coefficients_aa, two_body_coefficients_bb,
                   two_body_coefficients_ab, two_body_coefficients_ba>>
oneBodyArrays == <<one_body_coefficients_a, one_body_coefficients_b>>

\* Lines 303-322.
ExpandOneBody ==
    /\ pc = "assembled"
    /\ LET e == OneBodyError(nmo, one_body_int, complex_int)
       IN  IF e # "none"
           THEN /\ pc' = "error"
                /\ err' = e
                /\ UNCHANGED oneBodyArrays
           ELSE /\ pc' = "one_body"
                /\ err' = "none"
                /\ one_body_coefficients_a' = OneBodyA(nmo, one_body_int)
                /\ one_body_coefficients_b' = OneBodyB(nmo, one_body_int)
    /\ UNCHANGED <<parseVars, storeVars, nmo, twoBodyArrays, written,
                   runVars, outVars>>

\* Lines 324-328.
TruncateOneBody ==
    /\ pc = "one_body"
    /\ pc' = "one_body_truncated"
    /\ one_body_coefficients_a' = Truncate(one_body_coefficients_a)
    /\ one_body_coefficients_b' = Truncate(one_body_coefficients_b)
    /\ UNCHANGED <<err, parseVars, storeVars, nmo, twoBodyArrays, written,
                   runVars, outVars>>

\* Lines 332-424.
ExpandTwoBody ==
    /\ pc = "one_body_truncated"
    /\ LET e == TwoBodyError(nmo, two_body_int, complex_int)
           t == TwoBody(nmo, two_body_int)
       IN  IF e # "none"
           THEN /\ pc' = "error"
                /\ err' = e
                /\ UNCHANGED twoBodyArrays
           ELSE /\ pc' = "two_body"
                /\ err' = "none"
                /\ two_body_coefficients_aa' = t.aa
                /\ two_body_coefficients_bb' = t.bb
                /\ two_body_coefficients_ab' = t.ab
                /\ two_body_coefficients_ba' = t.ba
    /\ UNCHANGED <<parseVars, storeVars, nmo, oneBodyArrays, written,
                   runVars, outVars>>

\* Lines 426-434.
TruncateTwoBody ==
    /\ pc = "two_body"
    /\ pc' = "two_body_truncated"
    /\ two_body_coefficients_aa' = Truncate(two_body_coefficients_aa)
    /\ two_body_coefficients_bb' = Truncate(two_body_coefficients_bb)
    /\ two_body_coefficients_ab' = Truncate(two_body_coefficients_ab)
    /\ two_body_coefficients_ba' = Truncate(two_body_coefficients_ba)
    /\ UNCHANGED <<err, parseVars, storeVars, nmo, oneBodyArrays, written,
                   runVars, outVars>>

IntegralDatasets ==
    { "scf_fock_mo_a", "scf_fock_mo_b", "scf_eri_mo_aa",
      "scf_eri_mo_bb", "scf_eri_mo_ba", "scf_eri_mo_ab" }

\* The datasets written from the arrays as the two-body loop left them.
WriteDatasetsUntruncated ==
    /\ pc = "two_body"
    /\ pc' = "saved"
    /\ written' = IntegralDatasets
    /\ attrs' = ("wavefunction/basis" :> "sto-3g") @@ attrs
    /\ output_file' = "closed"
    /\ UNCHANGED <<err, parseVars, storeVars, nmo, oneBodyArrays,
                   twoBodyArrays, runVars>>

\* Lines 436-475: the wavefunction group, the six create_dataset calls of
\* the integrals and file.close().
WriteDatasets ==
    /\ pc = "two_body_truncated"
    /\ pc' = "saved"
    /\ written' = IntegralDatasets
    /\ attrs' = ("wavefunction/basis" :> "sto-3g") @@ attrs
    /\ output_file' = "closed"
    /\ UNCHANGED <<err, parseVars, storeVars, nmo, oneBodyArrays,
                   twoBodyArrays, runVars>>

Next ==
    \/ ExpandOneBody
    \/ TruncateOneBody
    \/ ExpandTwoBody
    \/ TruncateTwoBody
    \/ WriteDatasets

Spec == Init /\ [][Next]_vars

(***************************************************************************)
(* save() as a whole.  The FCIDUMP files it is run on: complete for n      *)
(* orbitals (every doubled one-body key, a core energy and the two-body    *)
(* key (1,1,1,1)), lacking the one-body key (2,2), with a row that does    *)
(* not parse, without "&END", and in the complex layout.                   *)
(***************************************************************************)
\* The one-body rows of n orbitals: for each pair the alpha key, then the
\* beta key.
GoodRows(n) ==
    [i \in 1..(2 * n * n) |->
        LET c == PairAt((i - 1) \div 2, n)
            k == IF i % 2 = 1 THEN AlphaKey(c) ELSE BetaKey(c)
        IN  Row5(OneVal(k)[1], k[1], k[2], 0, 0)]

GoodFile(n) ==
    <<TitleLine, EndLine, Row5(700000000, 0, 0, 0, 0)>>
    \o GoodRows(n) \o <<Row5(675000000, 1, 1, 1, 1)>>

ShortFile == <<EndLine, Row5(700000000, 0, 0, 0, 0), Row5(-1, 1, 1, 0, 0)>>

BadFile ==
    <<EndLine, Row5(-1, 1, 1, 0, 0), Line(FALSE, <<F(5), I(1), X, I(0), I(0)>>)>>

NoEndFile == <<TitleLine>>

ComplexFile ==
    <<EndLine, Row6(-1, 7, 1, 1, 0, 0), Row6(10, 7, 2, 2, 0, 0)>>

SaveFiles ==
    { GoodFile(n) : n \in SpatialCounts }
    \cup { ShortFile, BadFile, NoEndFile, ComplexFile }

\* The result files: complete ones, one lacking each property in turn, and
\* one that cannot be opened.
ResultFiles ==
    { ResultFile(n_mo, nuc_charge, st) :
        n_mo \in { <<n>> : n \in SpatialCounts } \cup { <<1, 1>> },
        nuc_charge \in { <<1, 1>>, <<3, 1, 1>> },
        st \in {1, 2} }
    \cup { [readable |-> TRUE,
            data |-> Lacking(ResultData(<<1>>, <<1, 1>>, 2), name)] :
            name \in PropertyNames }
    \cup { [readable |-> FALSE, data |-> ResultData(<<1>>, <<1, 1>>, 2)] }

InitSave ==
    /\ pc = "start"
    /\ err = "none"
    /\ file \in SaveFiles
    /\ start_reading = 0
    /\ listed_values = << >>
    /\ row = 0
    /\ complex_int = FALSE
    /\ e_core = <<0, 0>>
    /\ spinor = EmptyMap
    /\ one_body_int = EmptyMap
    /\ two_body_int = EmptyMap
    /\ NoDense
    /\ export \in Exports
    /\ errorcode = 0
    /\ dirac_h5 \in ResultFiles
    /\ parameters \in ParameterSets
    /\ output_file \in {"absent", "old"}
    /\ attrs = NoAttrs

NextSave ==
    \/ Popen
    \/ Wait
    \/ ReadHeader
    \/ ParseRow
    \/ Return
    \/ OpenOutput
    \/ GeneralAttributes
    \/ MoleculeGroup
    \/ PropertiesGroup
    \/ ModelGroups
    \/ ExpandOneBody
    \/ TruncateOneBody
    \/ ExpandTwoBody
    \/ TruncateTwoBody
    \/ WriteDatasets

SpecSave == InitSave /\ [][NextSave]_vars

(***************************************************************************)
(* Properties of the expansion in save() (specification Spec).             *)
(***************************************************************************)
TwoBodyExpanded == pc \in {"two_body", "two_body_truncated", "saved"}
OneBodyExpanded ==
    pc \in {"one_body", "one_body_truncated"} \/ TwoBodyExpanded

\* Every doubled one-body key of the nmo orbitals is stored.
OneBodyComplete ==
    \A c \in Pairs(nmo) :
        AlphaKey(c) \in DOMAIN one_body_int /\ BetaKey(c) \in DOMAIN one_body_int

\* The complex number a float64 cell denotes.
CellValue(x) == <<x, 0>>

\* C1 (as claimed): before truncation, a cell whose beta-beta (alpha-beta,
\* beta-alpha) doubled key is stored with value v holds v in block_bb
\* (block_ab, block_ba), whatever other keys the store holds.
C1_ChannelWriteWins ==
    pc = "two_body" =>
        \A c \in Quads(nmo) :
            /\ KeyBB(c) \in DOMAIN two_body_int =>
                  CellValue(two_body_coefficients_bb[c]) = two_body_int[KeyBB(c)]
            /\ KeyAB(c) \in DOMAIN two_body_int =>
                  CellValue(two_body_coefficients_ab[c]) = two_body_int[KeyAB(c)]
            /\ KeyBA(c) \in DOMAIN two_body_int =>
                  CellValue(two_body_coefficients_ba[c]) = two_body_int[KeyBA(c)]

\* The cells (q,p,s,r), (r,s,p,q) and (s,r,q,p) of a block equal cell
\* (p,q,r,s); np.conj of a float64 cell is the cell itself.
Symmetric(block) ==
    \A c \in DOMAIN block :
        /\ block[c] = block[<<c[2], c[1], c[4], c[3]>>]
        /\ CellValue(block[c]) = Conj(CellValue(block[<<c[3], c[4], c[1], c[2]>>]))
        /\ CellValue(block[c]) = Conj(CellValue(block[<<c[4], c[3], c[2], c[1]>>]))

\* C2: once the two-body loop has run, each of the four blocks is symmetric
\* under (p,q,r,s) -> (q,p,s,r) and, up to conjugation, under
\* (p,q,r,s) -> (r,s,p,q) and (s,r,q,p).
C2_BlocksSymmetric ==
    TwoBodyExpanded =>
        /\ Symmetric(two_body_coefficients_aa)
        /\ Symmetric(two_body_coefficients_bb)
        /\ Symmetric(two_body_coefficients_ab)
        /\ Symmetric(two_body_coefficients_ba)

\* C2 witness: the loop has run on a store holding two keys of one channel
\* and one orbit with different values, the orbit being one whose images
\* coincide (p = r, q = s), and the cell is not zero.
C2_Witness ==
    /\ pc = "two_body"
    /\ \E c \in Quads(nmo) :
          /\ c[1] = c[3] /\ c[2] = c[4] /\ c[1] # c[2]
          /\ KeyBB(c) \in DOMAIN two_body_int
          /\ KeyBB(<<c[2], c[1], c[4], c[3]>>) \in DOMAIN two_body_int
          /\ two_body_int[KeyBB(c)] #
                two_body_int[KeyBB(<<c[2], c[1], c[4], c[3]>>)]
          /\ two_body_coefficients_bb[c] # 0

\* The parity patterns of the doubled keys.
IsOdd(x) == x % 2 = 1
IsEven(x) == x % 2 = 0
IsAAKey(k) == IsOdd(k[1]) /\ IsOdd(k[2]) /\ IsOdd(k[3]) /\ IsOdd(k[4])
IsBBKey(k) == IsEven(k[1]) /\ IsEven(k[2]) /\ IsEven(k[3]) /\ IsEven(k[4])
IsABKey(k) == IsOdd(k[1]) /\ IsEven(k[2]) /\ IsEven(k[3]) /\ IsOdd(k[4])
IsBAKey(k) == IsEven(k[1]) /\ IsOdd(k[2]) /\ IsOdd(k[3]) /\ IsEven(k[4])

RestrictedStore ==
    /\ \E k \in DOMAIN two_body_int : IsAAKey(k)
    /\ \A k \in DOMAIN two_body_int :
          ~IsBBKey(k) /\ ~IsABKey(k) /\ ~IsBAKey(k)

\* C3: for a store with alpha-alpha keys and no beta-beta, alpha-beta or
\* beta-alpha key, the four blocks are equal after expansion and truncation.
C3_RestrictedBlocksEqual ==
    (RestrictedStore /\ pc \in {"two_body_truncated", "saved"}) =>
        /\ two_body_coefficients_bb = two_body_coefficients_aa
        /\ two_body_coefficients_ab = two_body_coefficients_aa
        /\ two_body_coefficients_ba = two_body_coefficients_aa

\* C3 witness: truncation has run on a restricted store and left a cell of
\* block_aa that is not zero.
C3_Witness ==
    /\ RestrictedStore
    /\ pc = "two_body_truncated"
    /\ \E c \in Quads(nmo) : two_body_coefficients_aa[c] # 0

\* C4 (as claimed): no missing one-body key makes the expansion fail, and
\* alpha_one[p,q] (beta_one[p,q]) is the value stored under (2p+1,2q+1)
\* ((2p+2,2q+2)), 0 when the key is not stored.
C4_DirectLookup ==
    /\ err # "KeyError"
    /\ pc = "one_body" =>
          \A c \in Pairs(nmo) :
              /\ CellValue(one_body_coefficients_a[c]) =
                    IF AlphaKey(c) \in DOMAIN one_body_int
                    THEN one_body_int[AlphaKey(c)] ELSE <<0, 0>>
              /\ CellValue(one_body_coefficients_b[c]) =
                    IF BetaKey(c) \in DOMAIN one_body_int
                    THEN one_body_int[BetaKey(c)] ELSE <<0, 0>>

IsScenarioReal ==
    /\ nmo = ScenarioReal.nmo
    /\ ~complex_int
    /\ e_core = ScenarioReal.e_core
    /\ one_body_int = ScenarioReal.one_body_int
    /\ two_body_int = ScenarioReal.two_body_int

\* C5 (as claimed): on the end-to-end record the expansion completes with
\* alpha_one = [[-1.25, 0], [0, -0.47]], cell (0,0,0,0) of all four blocks
\* 0.675 and every other two-body cell zero.
C5_EndToEnd ==
    IsScenarioReal =>
        /\ pc # "error"
        /\ OneBodyExpanded =>
              one_body_coefficients_a =
                  (<<0, 0>> :> -1250000000) @@ (<<0, 1>> :> 0) @@
                  (<<1, 0>> :> 0) @@ (<<1, 1>> :> -470000000)
        /\ TwoBodyExpanded =>
              \A c \in Quads(nmo) :
                  LET v == IF c = <<0, 0, 0, 0>> THEN 675000000 ELSE 0
                  IN  /\ two_body_coefficients_aa[c] = v
                      /\ two_body_coefficients_bb[c] = v
                      /\ two_body_coefficients_ab[c] = v
                      /\ two_body_coefficients_ba[c] = v

\* C6 (as claimed): on a complex record holding (1,2,2,1) = 0.1+0.2i and
\* every one-body key, the expansion completes and block_ab holds 0.1+0.2i
\* at (0,0,0,0), the direct position of the key.
C6_ComplexScenario ==
    (complex_int /\ OneBodyComplete /\ two_body_int = ScenarioComplexTwo) =>
        /\ pc # "error"
        /\ TwoBodyExpanded =>
              CellValue(two_body_coefficients_ab[<<0, 0, 0, 0>>]) =
                  <<100000000, 200000000>>

\* A stored key names a spin-orbital beyond the 2 * nmo of the expansion.
IndexBeyondNmo ==
    \/ \E k \in DOMAIN one_body_int : k[1] > 2 * nmo \/ k[2] > 2 * nmo
    \/ \E k \in DOMAIN two_body_int :
          k[1] > 2 * nmo \/ k[2] > 2 * nmo \/ k[3] > 2 * nmo \/ k[4] > 2 * nmo

\* C7 (as claimed): when a stored key has an index above 2 * nmo the
\* expansion ends in an error; it never completes and writes the datasets
\* with those entries left out.
C7_DimensionMismatchFails ==
    IndexBeyondNmo => pc # "saved" /\ written = {}

\* The doubled key of quadruple c for channel ch.
KeyOf(ch, c) ==
    CASE ch = "aa" -> KeyAA(c)
      [] ch = "bb" -> KeyBB(c)
      [] ch = "ab" -> KeyAB(c)
      [] ch = "ba" -> KeyBA(c)

\* The values the stored keys of channel ch put in cell c of a block: those
\* of the keys of c and of its images (q,p,s,r), (r,s,p,q), (s,r,q,p).
WrittenBy(ch, c, two) ==
    { Float64(two[KeyOf(ch, d)]) :
        d \in { x \in Orbit(c) : KeyOf(ch, x) \in DOMAIN two } }

\* Cell c of the block of channel ch holds a value that an alpha-alpha key
\* or a key of ch wrote there, 0 when none of them is stored.
FedBy(block, ch, two) ==
    \A c \in DOMAIN block :
        LET from == WrittenBy("aa", c, two) \cup WrittenBy(ch, c, two)
        IN  IF from = {} THEN block[c] = 0 ELSE block[c] \in from

\* C11: once the two-body loop has run, block_aa holds only what alpha-alpha
\* keys wrote, and block_bb (block_ab, block_ba) only what alpha-alpha and
\* beta-beta (alpha-beta, beta-alpha) keys wrote, each key writing the cells
\* (p,q,r,s), (q,p,s,r), (r,s,p,q), (s,r,q,p) of its quadruple and no other;
\* the one-body matrices are those the one-body stage left, whatever the
\* two-body keys.
C11_ChannelFrame ==
    pc = "two_body" =>
        /\ FedBy(two_body_coefficients_aa, "aa", two_body_int)
        /\ FedBy(two_body_coefficients_bb, "bb", two_body_int)
        /\ FedBy(two_body_coefficients_ab, "ab", two_body_int)
        /\ FedBy(two_body_coefficients_ba, "ba", two_body_int)
        /\ one_body_coefficients_a = Truncate(OneBodyA(nmo, one_body_int))
        /\ one_body_coefficients_b = Truncate(OneBodyB(nmo, one_body_int))

\* C11 witness: the loop has run on a store holding a beta-beta and an
\* alpha-beta key and no alpha-alpha key; block_bb and block_ab took their
\* values, block_aa and block_ba stayed zero.
C11_Witness ==
    /\ pc = "two_body"
    /\ \E c, d \in Quads(nmo) :
          /\ DOMAIN two_body_int = {KeyBB(c), KeyAB(d)}
          /\ two_body_coefficients_bb[c] # 0
          /\ two_body_coefficients_ab[d] # 0
    /\ two_body_coefficients_aa = ZeroTensor(nmo)
    /\ two_body_coefficients_ba = ZeroTensor(nmo)

\* Array new is array old with the cells of magnitude below 1e-8 set to 0
\* and the others, those of magnitude exactly 1e-8 included, kept; truncating
\* it once more changes nothing.
TruncatedFrom(old, new) ==
    /\ DOMAIN new = DOMAIN old
    /\ \A c \in DOMAIN old :
          /\ Abs(old[c]) < EQ_TOLERANCE => new[c] = 0
          /\ Abs(old[c]) >= EQ_TOLERANCE => new[c] = old[c]
    /\ Truncate(new) = new

\* C12: the truncation step after the one-body loop turns alpha_one and
\* beta_one, and the one after the two-body loop turns the four blocks, into
\* the same arrays with every cell of magnitude strictly below 1e-8 set to
\* exactly 0 and every other cell unchanged; a second truncation of the
\* result is the identity.
C12_Truncation ==
    [][ /\ (pc = "one_body" /\ pc' = "one_body_truncated") =>
              /\ TruncatedFrom(one_body_coefficients_a, one_body_coefficients_a')
              /\ TruncatedFrom(one_body_coefficients_b, one_body_coefficients_b')
        /\ (pc = "two_body" /\ pc' = "two_body_truncated") =>
              /\ TruncatedFrom(two_body_coefficients_aa, two_body_coefficients_aa')
              /\ TruncatedFrom(two_body_coefficients_bb, two_body_coefficients_bb')
              /\ TruncatedFrom(two_body_coefficients_ab, two_body_coefficients_ab')
              /\ TruncatedFrom(two_body_coefficients_ba, two_body_coefficients_ba')
      ]_vars

\* C12 witness: both truncations have run on a store whose beta-beta key of
\* a quadruple holds -5e-9 and whose alpha-beta key of it holds 1e-8, with
\* one-body values -1e-9 under (1,1) and 1e-8 under (2,2): the small ones
\* became 0, those of magnitude 1e-8 stayed.
C12_Witness ==
    /\ pc = "two_body_truncated"
    /\ \E c \in Quads(nmo) :
          /\ KeyBB(c) \in DOMAIN two_body_int
          /\ KeyAB(c) \in DOMAIN two_body_int
          /\ two_body_int[KeyBB(c)] = <<-5, 0>>
          /\ two_body_int[KeyAB(c)] = <<EQ_TOLERANCE, 0>>
          /\ two_body_coefficients_bb[c] = 0
          /\ two_body_coefficients_ab[c] = EQ_TOLERANCE
    /\ one_body_int[<<1, 1>>] = <<-1, 0>>
    /\ one_body_int[<<2, 2>>] = <<EQ_TOLERANCE, 0>>
    /\ one_body_coefficients_a[<<0, 0>>] = 0
    /\ one_body_coefficients_b[<<0, 0>>] = EQ_TOLERANCE

(***************************************************************************)
(* Properties of get_integrals (specification SpecParse).                  *)
(***************************************************************************)
\* Rows the loop has parsed so far, and what each of them says.
Parsed == 1..row
IdxAt(i) == RowIdx(listed_values[i], complex_int)
ValueAt(i) == RowValue(listed_values[i], complex_int)
Last(S) == CHOOSE i \in S : \A j \in S : j <= i

\* The parsed rows by the pattern of their indices.
CoreRows == { i \in Parsed : IdxAt(i) = <<0, 0, 0, 0>> }
SpinorRows ==
    { i \in Parsed : IdxAt(i)[1] # 0 /\ IdxAt(i)[2] = 0
                     /\ IdxAt(i)[3] = 0 /\ IdxAt(i)[4] = 0 }
OneBodyRows ==
    { i \in Parsed : IdxAt(i)[2] # 0 /\ IdxAt(i)[3] = 0 /\ IdxAt(i)[4] = 0 }
TwoBodyRows == { i \in Parsed : IdxAt(i)[3] # 0 \/ IdxAt(i)[4] # 0 }

\* The key a row carries, by pattern.
SpinorKey(i) == IdxAt(i)[1]
OneBodyKey(i) == <<IdxAt(i)[1], IdxAt(i)[2]>>
TwoBodyKey(i) == IdxAt(i)

\* C8 (as claimed): a stream holding a row whose token count differs from
\* the layout's (5 real, 6 complex) never makes get_integrals return a store.
C8_WrongTokenCountFails ==
    pc = "returned" =>
        /\ Len(listed_values[1]) \in {5, 6}
        /\ \A i \in 1..Len(listed_values) :
              Len(listed_values[i]) = Len(listed_values[1])

\* C9 (as claimed): every key of one_body_int, two_body_int and spinor has
\* only non-zero indices.
C9_KeysNonZero ==
    pc = "returned" =>
        /\ \A k \in DOMAIN spinor : k # 0
        /\ \A k \in DOMAIN one_body_int : k[1] # 0 /\ k[2] # 0
        /\ \A k \in DOMAIN two_body_int :
              k[1] # 0 /\ k[2] # 0 /\ k[3] # 0 /\ k[4] # 0

\* C9 (amended): every key of spinor is non-zero, every key of one_body_int
\* has a non-zero second index, every key of two_body_int has a non-zero
\* third or fourth index; the first index of a one-body key and the first
\* two of a two-body key may be zero.
C9_KeyShape ==
    /\ \A k \in DOMAIN spinor : k # 0
    /\ \A k \in DOMAIN one_body_int : k[2] # 0
    /\ \A k \in DOMAIN two_body_int : k[3] # 0 \/ k[4] # 0

\* C9 witness: a returned store built from the rows (0,k,0,0) and (i,0,k,0).
C9_Witness ==
    /\ pc = "returned"
    /\ <<0, 2>> \in DOMAIN one_body_int
    /\ <<1, 0, 2, 0>> \in DOMAIN two_body_int

\* C10: after any number of parsed rows, each map holds exactly the keys the
\* rows of its pattern carried, each key bound to the value of the last row
\* carrying it, and e_core is the value of the last all-zero-index row, 0
\* when there is none; hence a row changes only the one component its
\* indices select.
C10_LastWriteWins ==
    /\ e_core = IF CoreRows = {} THEN <<0, 0>> ELSE ValueAt(Last(CoreRows))
    /\ DOMAIN spinor = { SpinorKey(i) : i \in SpinorRows }
    /\ \A k \in DOMAIN spinor :
          spinor[k] = ValueAt(Last({ i \in SpinorRows : SpinorKey(i) = k }))
    /\ DOMAIN one_body_int = { OneBodyKey(i) : i \in OneBodyRows }
    /\ \A k \in DOMAIN one_body_int :
          one_body_int[k] =
              ValueAt(Last({ i \in OneBodyRows : OneBodyKey(i) = k }))
    /\ DOMAIN two_body_int = { TwoBodyKey(i) : i \in TwoBodyRows }
    /\ \A k \in DOMAIN two_body_int :
          two_body_int[k] =
              ValueAt(Last({ i \in TwoBodyRows : TwoBodyKey(i) = k }))

\* C10 witness: a returned store in which a one-body key was written twice
\* with different values and a core-energy row was read as well.
C10_Witness ==
    /\ pc = "returned"
    /\ CoreRows # {}
    /\ \E i, j \in OneBodyRows :
          i < j /\ OneBodyKey(i) = OneBodyKey(j) /\ ValueAt(i) # ValueAt(j)

\* The indices line i of the file carries when read as a data row.
FileIdx(i) == RowIdx(file[i].toks, complex_int)
\* The lines of the file the row loop has parsed so far.
ParsedLines == (start_reading + 1)..(start_reading + row)

\* C15: once the header loop has run on a file with a line holding "&END",
\* start_reading is the number of the first such line, wherever in the line
\* the text stands; the data rows are the token lists of exactly the lines
\* after it, in file order, the row loop goes through them and no further,
\* and every key of the store is carried by a line after the header that
\* the loop has parsed, never by a header line.
C15_HeaderSkip ==
    (pc # "open" /\ \E i \in 1..Len(file) : file[i].end) =>
        /\ start_reading \in 1..Len(file)
        /\ file[start_reading].end
        /\ \A j \in 1..(start_reading - 1) : ~file[j].end
        /\ listed_values =
              [i \in 1..(Len(file) - start_reading) |-> file[start_reading + i].toks]
        /\ row <= Len(file) - start_reading
        /\ pc = "returned" => row = Len(file) - start_reading
        /\ \A k \in DOMAIN spinor :
              \E i \in ParsedLines : FileIdx(i) = <<k, 0, 0, 0>>
        /\ \A k \in DOMAIN one_body_int :
              \E i \in ParsedLines : FileIdx(i) = <<k[1], k[2], 0, 0>>
        /\ \A k \in DOMAIN two_body_int : \E i \in ParsedLines : FileIdx(i) = k

\* C15 witness: get_integrals has returned on a file whose header holds a
\* line that reads like the one-body row (3,3), then the terminator with
\* "&END" after data-like tokens, and whose data rows hold one more line with
\* "&END": the first two left no key, the third was parsed as the row (3,4).
C15_Witness ==
    /\ pc = "returned"
    /\ Len(file) >= 4
    /\ file[1] = HeaderRow
    /\ file[2] = EndDataLine
    /\ start_reading = 2
    /\ file[4] = EndDataLine
    /\ DOMAIN one_body_int = {<<3, 4>>, <<1, 2>>}

(***************************************************************************)
(* Properties of save() as a whole (specification SpecSave).               *)
(***************************************************************************)
InvocationErrors == {"EnvironmentError", "CalculationFailed"}

\* Nothing of FCIDUMP was read and the store is as lines 537-540 would
\* start it.
NothingParsed ==
    /\ start_reading = 0
    /\ listed_values = << >>
    /\ row = 0
    /\ e_core = <<0, 0>>
    /\ spinor = EmptyMap
    /\ one_body_int = EmptyMap
    /\ two_body_int = EmptyMap

\* C13: when Popen cannot start the command (it raises OSError) the call
\* ends with EnvironmentError; when the command was started and its exit
\* status is not 0 (127 of a shell that finds no executable and a negative
\* status included) it ends with CalculationFailed.  Either way the call
\* ends there: FCIDUMP is not read, no row is parsed and no store, not even
\* a partial one, is returned.  An exception of the parse (IndexError,
\* ValueError) is raised only after the command exited with status 0.
C13_InvocationFailure ==
    /\ (export.popen = "OSError" /\ pc # "start") =>
          pc = "error" /\ err = "EnvironmentError"
    /\ (export.popen = "started" /\ export.status # 0
           /\ pc \notin {"start", "wait"}) =>
          pc = "error" /\ err = "CalculationFailed"
    /\ err \in InvocationErrors => pc = "error" /\ NothingParsed
    /\ err \in {"IndexError", "ValueError"} =>
          export.popen = "started" /\ export.status = 0 /\ errorcode = 0

\* C13 witness: the call ended with CalculationFailed on exit status 127,
\* on a file that would have parsed.
C13_Witness ==
    /\ pc = "error"
    /\ err = "CalculationFailed"
    /\ errorcode = 127
    /\ file = GoodFile(1)

\* A property save() asks for is missing: the result file cannot be opened
\* or does not hold it.
ArtifactMissing ==
    \/ ~dirac_h5.readable
    \/ \E name \in PropertyNames : name \notin DOMAIN dirac_h5.data

\* save() stopped between the opening of the container and the end of the
\* metadata.
MetadataFailed ==
    /\ pc = "error"
    /\ output_file = "open"
    /\ "model/basis" \notin DOMAIN attrs

\* C14 (as claimed): when the result file cannot be opened or lacks a
\* property, the helper returns None for it and save() does not fail in
\* the metadata: it goes on and assembles the other fields.
C14_MissingArtifactDegrades ==
    ArtifactMissing =>
        /\ \A name \in PropertyNames :
              (~dirac_h5.readable \/ name \notin DOMAIN dirac_h5.data) =>
                  get_from_dirac_hdf5_file(dirac_h5, name) = None
        /\ ~MetadataFailed

\* floor(nelec / 2): the integer b with 2b <= nelec < 2b + 2.
IsFloorOfHalf(b, nelec) == 2 * b <= nelec /\ nelec < 2 * b + 2

\* C16: once save() has written the properties group, with nelec the sum
\* of the nuclear charges minus the molecular charge, calcinfo_nbeta is
\* floor(nelec / 2) and calcinfo_nalpha is nelec - calcinfo_nbeta: they add
\* up to nelec and calcinfo_nalpha - calcinfo_nbeta is 0 or 1, for negative
\* and odd nelec as well.
C16_ElectronSplit ==
    "properties/calcinfo_nbeta" \in DOMAIN attrs =>
        LET nelec == Sum(dirac_h5.data[PropNucCharge]) - parameters.charge
            nbeta == attrs["properties/calcinfo_nbeta"]
            nalpha == attrs["properties/calcinfo_nalpha"]
        IN  /\ IsFloorOfHalf(nbeta, nelec)
            /\ nalpha = nelec - nbeta
            /\ nalpha + nbeta = nelec
            /\ nalpha - nbeta \in {0, 1}

\* C16 witness: save() has completed for nuclear charges (1, 1) and
\* molecular charge 3, nelec = -1: calcinfo_nbeta = -1, calcinfo_nalpha = 0.
C16_Witness ==
    /\ pc = "saved"
    /\ dirac_h5.data[PropNucCharge] = <<1, 1>>
    /\ parameters.charge = 3
    /\ attrs["properties/calcinfo_nbeta"] = -1
    /\ attrs["properties/calcinfo_nalpha"] = 0

\* The stages of get_integrals.
InGetIntegrals == pc \in {"start", "wait", "open", "rows"}

\* An array is allocated for nmo orbitals and truncated.
Finished(array, cells) == DOMAIN array = cells /\ Truncate(array) = array

\* C17: every step of save() keeps the order of the stages.  While
\* get_integrals runs, the file at hdf5_filename, its attributes and its
\* datasets are not touched; the file is opened for writing only when
\* get_integrals has returned, the command having exited with status 0 and
\* every row after the header parsed; the integral datasets are written in
\* one step, all six, from arrays that are all expanded and truncated; a
\* step that ends in an error leaves the container without integral
\* dataset, and one that ends get_integrals in an error leaves the file as
\* it was.
C17_StageOrder ==
    [][ /\ InGetIntegrals =>
              /\ output_file' = output_file
              /\ attrs' = attrs
              /\ written' = written
        /\ output_file' # output_file /\ output_file \in {"absent", "old"} =>
              /\ pc = "returned"
              /\ errorcode = 0
              /\ export.popen = "started"
              /\ row = Len(file) - start_reading
              /\ row = Len(listed_values)
        /\ written' # written =>
              /\ pc = "two_body_truncated"
              /\ written = {}
              /\ written' = IntegralDatasets
              /\ Finished(one_body_coefficients_a, Pairs(nmo))
              /\ Finished(one_body_coefficients_b, Pairs(nmo))
              /\ Finished(two_body_coefficients_aa, Quads(nmo))
              /\ Finished(two_body_coefficients_bb, Quads(nmo))
              /\ Finished(two_body_coefficients_ab, Quads(nmo))
              /\ Finished(two_body_coefficients_ba, Quads(nmo))
        /\ pc' = "error" =>
              /\ written' = {}
              /\ InGetIntegrals =>
                    output_file' \in {"absent", "old"} /\ attrs' = NoAttrs
      ]_vars

\* C17 witness: save() has completed on a file that existed before, for two
\* orbitals: the container is closed and holds the six integral datasets.
C17_Witness ==
    /\ pc = "saved"
    /\ nmo = 2
    /\ output_file = "closed"
    /\ written = IntegralDatasets
    /\ one_body_coefficients_a[<<1, 1>>] # 0
    /\ two_body_coefficients_aa[<<0, 0, 0, 0>>] # 0

====
